---- MODULE Spec2Model ----
(***************************************************************************)
(* A model of three parts of circomspect:                                  *)
(*   - parser/src/parser_logic.rs: the comment-stripping preprocessor and  *)
(*     the two parse entry points built on it;                             *)
(*   - program_analysis/src/side_effect_analysis.rs: the side-effect       *)
(*     analysis over a CFG in SSA form;                                    *)
(*   - program_structure/src/utils/sarif_conversion.rs: the conversion of  *)
(*     a report to a SARIF result.                                         *)
(* Each part has its own specification (Spec, SpecSideEffect, SpecSarif);  *)
(* the variables of the other parts are held at their idle values.         *)
(***************************************************************************)
EXTENDS FiniteSets, Integers, Sequences, TLC

VARIABLES
    \* preprocess (parser_logic.rs:7-75)
    expr,          \* the source string, a sequence of chars (code points)
    file_id,       \* the FileID argument
    it,            \* expr.chars(): the number of chars already taken
    pp,            \* the output string built so far, a sequence of chars
    state,         \* 0 code, 1 line comment, 2 block comment
    loc,           \* the running location counter
    block_start,   \* loc recorded at the last block comment opener
    result,        \* what preprocess returned
    \* parse_file / parse_string (parser_logic.rs:77-112)
    entry,         \* the caller of preprocess: parse_file or parse_string
    parser_calls,  \* how often ParseAstParser::parse was invoked
    parser_input,  \* the string the grammar parser was given
    ret,           \* what the entry point returned
    \* run_side_effect_analysis (side_effect_analysis.rs:214-348)
    cfg,             \* the CFG analysed: parameters, declarations, statements
    se_pc,           \* idle, start, definitions, signals, done
    variables_read,  \* names read by some statement
    sinks,           \* the sink set
    reports,         \* the ReportCollection, a sequence
    reported_vars,   \* names reported by the definition pass
    \* <Report as ToSarif>::to_sarif (sarif_conversion.rs:58-98)
    report,          \* the Report converted
    sarif            \* the conversion's result

ppVars == <<expr, file_id, it, pp, state, loc, block_start, result>>
parseVars == <<entry, parser_calls, parser_input, ret>>
seVars == <<cfg, se_pc, variables_read, sinks, reports, reported_vars>>
sarifVars == <<report, sarif>>
vars == <<ppVars, parseVars, seVars, sarifVars>>

-----------------------------------------------------------------------------
(* Characters and their UTF-8 encoding.                                    *)

Slash == 47
Star == 42
LineFeed == 10
Space == 32

\* The chars the inputs are drawn from: the three chars the preprocessor
\* matches on, an ordinary ASCII char (a) and a two-byte char (e acute).
Alphabet == {Slash, Star, LineFeed, 97, 233}

\* The longest source string explored.
MaxLen == 6

\* A len_utf8 that counts chars instead of bytes: one space per char.
len_utf8_one_per_char(c) == 1

\* char::len_utf8
len_utf8(c) ==
    IF c < 128 THEN 1
    ELSE IF c < 2048 THEN 2
    ELSE IF c < 65536 THEN 3
    ELSE 4

\* The UTF-8 bytes of one char.
Utf8(c) ==
    IF c < 128 THEN <<c>>
    ELSE IF c < 2048 THEN <<192 + (c \div 64), 128 + (c % 64)>>
    ELSE IF c < 65536 THEN
        <<224 + (c \div 4096), 128 + ((c \div 64) % 64), 128 + (c % 64)>>
    ELSE <<240 + (c \div 262144), 128 + ((c \div 4096) % 64),
           128 + ((c \div 64) % 64), 128 + (c % 64)>>

\* The bytes of a string: what str::len and byte offsets are about.
RECURSIVE Bytes(_)
Bytes(s) == IF s = <<>> THEN <<>> ELSE Utf8(Head(s)) \o Bytes(Tail(s))

\* n pushes of ' '
Spaces(n) == [i \in 1..n |-> Space]

\* All strings over Alphabet of at most MaxLen chars.
Strings == UNION {[1..n -> Alphabet] : n \in 0..MaxLen}

-----------------------------------------------------------------------------
(* preprocess                                                              *)

NoResult == [tag |-> "none", pp |-> <<>>, location |-> <<0, 0>>, file_id |-> 0]
Ok(s) == [tag |-> "Ok", pp |-> s, location |-> <<0, 0>>, file_id |-> 0]
\* UnclosedCommentError { location: block_start..block_start, file_id }
UnclosedComment(start, fid) ==
    [tag |-> "UnclosedComment", pp |-> <<>>, location |-> <<start, start>>,
     file_id |-> fid]

Running == result.tag = "none"

\* (0, '/'): the char after the slash decides.
CodeSlash ==
    /\ Running /\ it < Len(expr)
    /\ state = 0 /\ expr[it + 1] = Slash
    /\ IF it + 2 <= Len(expr)
       THEN LET c0 == expr[it + 1]
                c1 == expr[it + 2]
            IN /\ it' = it + 2
               /\ loc' = loc + 2
               /\ result' = result
               /\ IF c1 = Slash
                  THEN /\ state' = 1
                       /\ pp' = pp \o <<Space, Space>>
                       /\ UNCHANGED block_start
                  ELSE IF c1 = Star
                  THEN /\ block_start' = loc + 2
                       /\ state' = 2
                       /\ pp' = pp \o <<Space, Space>>
                  ELSE /\ pp' = pp \o <<c0, c1>>
                       /\ UNCHANGED <<state, block_start>>
       ELSE \* None: push the slash, break, Ok(pp)
            /\ it' = it + 1
            /\ loc' = loc + 2
            /\ pp' = Append(pp, expr[it + 1])
            /\ result' = Ok(pp')
            /\ UNCHANGED <<state, block_start>>
    /\ UNCHANGED <<expr, file_id, parseVars, seVars, sarifVars>>

\* (0, _)
CodeChar ==
    /\ Running /\ it < Len(expr)
    /\ state = 0 /\ expr[it + 1] # Slash
    /\ it' = it + 1
    /\ loc' = loc + 1
    /\ pp' = Append(pp, expr[it + 1])
    /\ UNCHANGED <<expr, file_id, state, block_start, result, parseVars, seVars, sarifVars>>

\* (1, '\n')
LineCommentEnd ==
    /\ Running /\ it < Len(expr)
    /\ state = 1 /\ expr[it + 1] = LineFeed
    /\ it' = it + 1
    /\ loc' = loc + 1
    /\ pp' = Append(pp, expr[it + 1])
    /\ state' = 0
    /\ UNCHANGED <<expr, file_id, block_start, result, parseVars, seVars, sarifVars>>

\* (2, '*'): the char after the star decides.
BlockStar ==
    /\ Running /\ it < Len(expr)
    /\ state = 2 /\ expr[it + 1] = Star
    /\ loc' = loc + 2
    /\ IF it + 2 <= Len(expr)
       THEN LET c == expr[it + 2]
            IN /\ it' = it + 2
               /\ result' = result
               /\ IF c = Slash
                  THEN /\ pp' = pp \o <<Space, Space>>
                       /\ state' = 0
                  ELSE /\ pp' = pp \o <<Space>> \o Spaces(len_utf8(c))
                       /\ state' = state
       ELSE \* None: the unclosed comment error
            /\ it' = it + 1
            /\ result' = UnclosedComment(block_start, file_id)
            /\ UNCHANGED <<pp, state>>
    /\ UNCHANGED <<expr, file_id, block_start, parseVars, seVars, sarifVars>>

\* (_, c): any other char of a comment becomes spaces.
CommentChar ==
    /\ Running /\ it < Len(expr)
    /\ \/ state = 1 /\ expr[it + 1] # LineFeed
       \/ state = 2 /\ expr[it + 1] # Star
    /\ it' = it + 1
    /\ loc' = loc + 1
    /\ pp' = pp \o Spaces(len_utf8(expr[it + 1]))
    /\ UNCHANGED <<expr, file_id, state, block_start, result, parseVars, seVars, sarifVars>>

\* An end of input that rejects every comment still open, line comments
\* included.
EndOfInput_any_comment_is_error ==
    /\ result.tag = "none" /\ it = Len(expr)
    /\ result' = IF state = 0
                 THEN [tag |-> "Ok", pp |-> pp, location |-> <<0, 0>>,
                       file_id |-> 0]
                 ELSE [tag |-> "UnclosedComment", pp |-> <<>>,
                       location |-> <<block_start, block_start>>,
                       file_id |-> file_id]
    /\ UNCHANGED <<expr, file_id, it, pp, state, loc, block_start,
                   entry, parser_calls, parser_input, ret, seVars, sarifVars>>

\* it.next() is None at the head of the loop: Ok(pp)
EndOfInput ==
    /\ Running /\ it = Len(expr)
    /\ result' = Ok(pp)
    /\ UNCHANGED <<expr, file_id, it, pp, state, loc, block_start, parseVars, seVars, sarifVars>>

preprocess ==
    \/ CodeSlash
    \/ CodeChar
    \/ LineCommentEnd
    \/ BlockStar
    \/ CommentChar
    \/ EndOfInput

-----------------------------------------------------------------------------
(* parse_file and parse_string                                             *)

\* What lang::ParseAstParser::parse can return: an AST or a ParseError.
ParseOutcomes ==
    {"AST", "InvalidToken", "UnrecognizedToken", "ExtraToken", "OtherError"}

NoRet == [tag |-> "none", report |-> "none", file_id |-> 0]

\* A parse_file that runs the grammar parser on whatever preprocess left
\* and looks at the preprocessing error afterwards.
parse_file_parses_first ==
    /\ entry = "parse_file" /\ ret.tag = "none" /\ ~Running
    /\ parser_calls' = parser_calls + 1
    /\ parser_input' = result.pp
    /\ \E o \in ParseOutcomes :
           ret' = IF result.tag = "UnclosedComment"
                  THEN [tag |-> "Err", report |-> "UnclosedComment",
                        file_id |-> result.file_id]
                  ELSE IF o = "AST"
                  THEN [tag |-> "Ok", report |-> "none", file_id |-> file_id]
                  ELSE [tag |-> "Err", report |-> "ParsingError",
                        file_id |-> file_id]
    /\ UNCHANGED <<ppVars, entry, seVars, sarifVars>>

\* parse_file: preprocess(src, file_id)? and then the grammar parser.
parse_file ==
    /\ entry = "parse_file" /\ ret.tag = "none" /\ ~Running
    /\ IF result.tag = "UnclosedComment"
       THEN \* the ? operator returns the report at once
            /\ ret' = [tag |-> "Err", report |-> "UnclosedComment",
                       file_id |-> result.file_id]
            /\ UNCHANGED <<parser_calls, parser_input>>
       ELSE /\ parser_calls' = parser_calls + 1
            /\ parser_input' = result.pp
            /\ \E o \in ParseOutcomes :
                   ret' = IF o = "AST"
                          THEN [tag |-> "Ok", report |-> "none",
                                file_id |-> file_id]
                          ELSE [tag |-> "Err", report |-> "ParsingError",
                                file_id |-> file_id]
    /\ UNCHANGED <<ppVars, entry, seVars, sarifVars>>

\* parse_string: preprocess(src, 0).ok()? and then the grammar parser.
parse_string ==
    /\ entry = "parse_string" /\ ret.tag = "none" /\ ~Running
    /\ IF result.tag = "UnclosedComment"
       THEN /\ ret' = [tag |-> "None", report |-> "none", file_id |-> 0]
            /\ UNCHANGED <<parser_calls, parser_input>>
       ELSE /\ parser_calls' = parser_calls + 1
            /\ parser_input' = result.pp
            /\ \E o \in ParseOutcomes :
                   ret' = IF o = "AST"
                          THEN [tag |-> "Some", report |-> "none", file_id |-> 0]
                          ELSE [tag |-> "None", report |-> "none", file_id |-> 0]
    /\ UNCHANGED <<ppVars, entry, seVars, sarifVars>>

-----------------------------------------------------------------------------
(* The CFG handed to the side-effect analysis.                             *)
(*                                                                         *)
(* The analysis never looks at the order of blocks or statements, so the   *)
(* CFG is its parameters, its declarations and the set of its statements.  *)
(* A statement is its kind, the name it writes or declares ("" for none)   *)
(* and the names it reads (Statement::variables_read).                     *)

Names == <<"x", "y", "z">>
NameSet == {Names[i] : i \in 1..Len(Names)}

\* VariableType of a declaration; "param" marks a parameter of the construct.
Kinds == <<"param", "var", "intermediate", "input", "output">>
SignalKinds == {"intermediate", "input", "output"}

\* The most statements (besides declarations without dimensions) in a CFG.
MaxStmts == 2

\* Names are opaque, so the kinds are listed in one fixed order.
KindIndex(k) == CHOOSE i \in 1..Len(Kinds) : Kinds[i] = k
KindMaps ==
    {f \in [NameSet -> {Kinds[i] : i \in 1..Len(Kinds)}] :
        \A i \in 1..(Len(Names) - 1) :
            KindIndex(f[Names[i]]) <= KindIndex(f[Names[i + 1]])}

Stmt(k, t, r) == [kind |-> k, target |-> t, reads |-> r]

\* x <-- e, x = e: e reads at most two other names.
Substitutions ==
    UNION {{Stmt("Substitution", t, r) : r \in SUBSET (NameSet \ {t})} :
           t \in NameSet}
\* a === b: one or two names.
ConstraintEqualities ==
    {Stmt("ConstraintEquality", "", {m, n}) : m \in NameSet, n \in NameSet}
\* return e, assert(e), if (e): e reads one name.
SinkStatements ==
    {Stmt(k, "", {n}) : k \in {"Return", "Assert", "IfThenElse"}, n \in NameSet}
\* A declaration x[d] with a dimension expression reading another name.
Declarations ==
    UNION {{Stmt("Declaration", t, {d}) : d \in NameSet \ {t}} : t \in NameSet}

Statements ==
    Substitutions \cup ConstraintEqualities \cup SinkStatements \cup Declarations

RECURSIVE StatementSets(_)
StatementSets(n) ==
    IF n = 0 THEN {{}}
    ELSE LET prev == StatementSets(n - 1)
         IN prev \cup UNION {{S \cup {st} : st \in Statements} : S \in prev}

\* What the front end can produce: parameters and input signals are never
\* assigned, a parameter has no declaration statement, and a construct that
\* returns a value is a function: it has no signals and no constraints.
WellFormed(kinds, stmts) ==
    /\ \A st \in stmts :
           /\ st.kind = "Substitution" =>
                  kinds[st.target] \in {"var", "intermediate", "output"}
           /\ st.kind = "Declaration" => kinds[st.target] # "param"
    /\ (\E st \in stmts : st.kind = "Return") =>
           /\ \A n \in NameSet : kinds[n] \notin SignalKinds
           /\ \A st \in stmts : st.kind # "ConstraintEquality"

Cfgs ==
    {c \in [kinds : KindMaps, stmts : StatementSets(MaxStmts)] :
        WellFormed(c.kinds, c.stmts)}

IdleCfg == [kinds |-> [n \in NameSet |-> "var"], stmts |-> {}]

\* cfg.parameters()
parameters == {n \in NameSet : cfg.kinds[n] = "param"}

\* All orders a set can be iterated in.
Orders(S) ==
    {o \in [1..Cardinality(S) -> S] :
        \A i, j \in 1..Cardinality(S) : i # j => o[i] # o[j]}

\* The names reachable from the set S over the edges E.
RECURSIVE ReachFrom(_, _)
ReachFrom(E, S) ==
    LET T == S \cup {e[2] : e \in {f \in E : f[1] \in S}}
    IN IF T = S THEN S ELSE ReachFrom(E, T)

-----------------------------------------------------------------------------
(* Taint analysis (crate::taint_analysis).                                 *)

\* An edge y -> x for every assignment x <- e with y read by e, and for
\* every declaration of x with y read by a dimension expression.
TaintEdges ==
    UNION {{<<y, st.target>> : y \in st.reads} :
           st \in {t \in cfg.stmts : t.kind \in {"Substitution", "Declaration"}}}

\* Every definition site: the parameters and the assigned names.
definitions ==
    parameters \cup
    {st.target : st \in {t \in cfg.stmts : t.kind = "Substitution"}}

single_step_taint(name) == {e[2] : e \in {f \in TaintEdges : f[1] = name}}

\* The transitive closure, with the node itself if it has an outgoing edge.
multi_step_taint(name) ==
    IF single_step_taint(name) = {} THEN {}
    ELSE {name} \cup ReachFrom(TaintEdges, single_step_taint(name))

taints_any(name, set) == multi_step_taint(name) \cap set # {}

-----------------------------------------------------------------------------
(* Constraint analysis (crate::constraint_analysis).                       *)

ConstraintEdges ==
    UNION {{<<u, v>> : u \in st.reads, v \in st.reads} \ {<<w, w>> : w \in NameSet} :
           st \in {t \in cfg.stmts : t.kind = "ConstraintEquality"}}

\* Every name that occurs in some ConstraintEquality.
constrained_variables ==
    UNION {st.reads : st \in {t \in cfg.stmts : t.kind = "ConstraintEquality"}}

single_step_constraint(name) ==
    {e[2] : e \in {f \in ConstraintEdges : f[1] = name}}

\* The neighbourhood under the symmetric relation; empty without edges.
multi_step_constraint(name) ==
    ReachFrom(ConstraintEdges, single_step_constraint(name))

-----------------------------------------------------------------------------
(* run_side_effect_analysis                                                *)

\* for basic_block in cfg.iter(): variables_read.extend(...)
VariablesRead == UNION {st.reads : st \in cfg.stmts}

signal_decls == {n \in NameSet : cfg.kinds[n] \in SignalKinds}

exported_signals == {n \in signal_decls : cfg.kinds[n] \in {"input", "output"}}

\* The variables tainted by input and output signals.
exported_sinks == UNION {multi_step_taint(source) : source \in exported_signals}

\* A closure that includes every tainted source, constrained or not.
ConstraintSinks_always_insert ==
    UNION {multi_step_constraint(source) \cup {source} :
           source \in exported_sinks}

\* The variables constraining input and output sinks; the source is included
\* when it is part of a constraint.
ConstraintSinks ==
    UNION {LET r == multi_step_constraint(source)
           IN IF r # {} THEN r \cup {source} ELSE r :
           source \in exported_sinks}

\* The variables read by declarations, return values, asserts and conditions.
StatementSinks ==
    UNION {st.reads :
           st \in {t \in cfg.stmts :
                      t.kind \in {"Declaration", "Return", "Assert", "IfThenElse"}}}

Sinks == ConstraintSinks \cup exported_signals \cup StatementSinks

Report(code, warning, name) == [code |-> code, warning |-> warning, name |-> name]

\* A definition pass that tests the side effect before the read.
DefinitionReports_sinks_first(source) ==
    IF ~taints_any(source, sinks)
    THEN IF source \in parameters
         THEN <<Report("VariableWithoutSideEffect", "ParamWithoutSideEffects", source)>>
         ELSE <<Report("VariableWithoutSideEffect", "VariableWithoutSideEffects", source)>>
    ELSE IF source \notin variables_read
    THEN IF source \in parameters
         THEN <<Report("UnusedParameterValue", "UnusedParameter", source)>>
         ELSE <<Report("UnusedVariableValue", "UnusedVariable", source)>>
    ELSE <<>>

\* The reports of one definition: lines 315-331.
DefinitionReports(source) ==
    IF source \notin variables_read
    THEN IF source \in parameters
         THEN <<Report("UnusedParameterValue", "UnusedParameter", source)>>
         ELSE <<Report("UnusedVariableValue", "UnusedVariable", source)>>
    ELSE IF ~taints_any(source, sinks)
    THEN IF source \in parameters
         THEN <<Report("VariableWithoutSideEffect", "ParamWithoutSideEffects", source)>>
         ELSE <<Report("VariableWithoutSideEffect", "VariableWithoutSideEffects", source)>>
    ELSE <<>>

\* A signal pass without the test on reported_vars.
SignalReports_no_skip(source, reported) ==
    IF source \notin variables_read
    THEN <<Report("UnusedVariableValue", "UnusedSignal", source)>>
    ELSE IF ~taints_any(source, constrained_variables)
    THEN <<Report("UnconstrainedSignal", "UnconstrainedSignal", source)>>
    ELSE <<>>

\* The reports of one signal declaration: lines 335-345.
SignalReports(source, reported) ==
    IF source \in reported THEN <<>>
    ELSE IF source \notin variables_read
    THEN <<Report("UnusedVariableValue", "UnusedSignal", source)>>
    ELSE IF ~taints_any(source, constrained_variables)
    THEN <<Report("UnconstrainedSignal", "UnconstrainedSignal", source)>>
    ELSE <<>>

RECURSIVE Flatten(_)
Flatten(ss) == IF ss = <<>> THEN <<>> ELSE Head(ss) \o Flatten(Tail(ss))

\* A definition pass that leaves its loop after the first report.
DefinitionPassReports_first_only(order) ==
    LET all == Flatten([i \in 1..Len(order) |-> DefinitionReports(order[i])])
    IN IF all = <<>> THEN <<>> ELSE <<Head(all)>>

\* The reports pushed by the loop of lines 314-332 over the definitions,
\* taken in the given order.
DefinitionPassReports(order) ==
    Flatten([i \in 1..Len(order) |-> DefinitionReports(order[i])])

\* The reports pushed by the loop of lines 334-346 over signal_decls.
SignalPassReports(order, reported) ==
    Flatten([i \in 1..Len(order) |-> SignalReports(order[i], reported)])

\* Steps 1 to 3 of the analysis: variables_read and the sinks.
ComputeSinks ==
    /\ se_pc = "start"
    /\ variables_read' = VariablesRead
    /\ sinks' = Sinks
    /\ se_pc' = "definitions"
    /\ UNCHANGED <<cfg, reports, reported_vars, ppVars, parseVars, sarifVars>>

\* for source in taint_analysis.definitions(), in whatever order they come.
DefinitionPass ==
    /\ se_pc = "definitions"
    /\ \E order \in Orders(definitions) :
           reports' = reports \o DefinitionPassReports(order)
    /\ reported_vars' = {d \in definitions : DefinitionReports(d) # <<>>}
    /\ se_pc' = "signals"
    /\ UNCHANGED <<cfg, variables_read, sinks, ppVars, parseVars, sarifVars>>

\* for (source, declaration) in signal_decls, in the order of the hash map.
SignalPass ==
    /\ se_pc = "signals"
    /\ \E order \in Orders(signal_decls) :
           reports' = reports \o SignalPassReports(order, reported_vars)
    /\ se_pc' = "done"
    /\ UNCHANGED <<cfg, variables_read, sinks, reported_vars,
                   ppVars, parseVars, sarifVars>>

run_side_effect_analysis ==
    \/ ComputeSinks
    \/ DefinitionPass
    \/ SignalPass

-----------------------------------------------------------------------------

FileIds == {0, 1}

-----------------------------------------------------------------------------
(* Conversion of a report to a SARIF result.                               *)

\* The file library: one file, named "a" in double quotes, with two lines.
KnownFiles == {0}
FileName == <<34, 97, 34>>
FileSource == <<97, LineFeed, 98>>

\* The most labels of one kind on a report.
MaxLabels == 2

\* Byte ranges of labels: empty, two bytes, reversed, and past the end.
Ranges == {<<0, 0>>, <<0, 2>>, <<2, 0>>, <<2, 4>>}

Labels == [file_id : FileIds, range : Ranges]
LabelLists == UNION {[1..n -> Labels] : n \in 0..MaxLabels}
Reports == [primary : LabelLists, secondary : LabelLists]

\* files.to_storage().location(file_id, byte_index)
location(fid, index) ==
    IF fid \in KnownFiles /\ index <= Len(FileSource)
    THEN LET feeds == {i \in 1..index : FileSource[i] = LineFeed}
             line_start == IF feeds = {} THEN 0
                           ELSE CHOOSE i \in feeds : \A j \in feeds : j <= i
         IN [tag |-> "Some", line_number |-> Cardinality(feeds) + 1,
             column_number |-> index - line_start + 1]
    ELSE [tag |-> "None", line_number |-> 0, column_number |-> 0]

\* <FileID as ToUri>::to_uri: the name without its double quotes.
to_uri(fid) ==
    IF fid \in KnownFiles
    THEN [tag |-> "Ok", uri |-> <<"file://", SelectSeq(FileName, LAMBDA c : c # 34)>>]
    ELSE [tag |-> "Err", uri |-> <<>>]

SarifErr(e) == [tag |-> "Err", error |-> e, locations |-> <<>>]

\* <ReportLabel as ToSarif>::to_sarif
label_to_sarif(label) ==
    LET uri == to_uri(label.file_id)
        start == location(label.file_id, label.range[1])
        end == location(label.file_id, label.range[2])
    IN IF uri.tag = "Err" THEN SarifErr("UnknownFile")
       ELSE IF ~(label.range[1] <= label.range[2]) THEN SarifErr("panic")
       ELSE IF start.tag = "None" \/ end.tag = "None"
       THEN SarifErr("UnknownLocation")
       ELSE [tag |-> "Ok", error |-> "none",
             locations |-> <<[uri |-> uri.uri, id |-> 0,
                              start_line |-> start.line_number,
                              start_column |-> start.column_number,
                              end_line |-> end.line_number,
                              end_column |-> end.column_number]>>]

\* labels.iter().map(to_sarif).collect::<SarifResult<Vec<_>>>(): the
\* locations of all labels, or the first error.
RECURSIVE collect(_)
collect(labels) ==
    IF labels = <<>> THEN [tag |-> "Ok", error |-> "none", locations |-> <<>>]
    ELSE LET first == label_to_sarif(Head(labels))
         IN IF first.tag = "Err" THEN first
            ELSE LET rest == collect(Tail(labels))
                 IN IF rest.tag = "Err" THEN rest
                    ELSE [rest EXCEPT !.locations = first.locations \o @]

\* .take(n)
take(seq, n) == SubSeq(seq, 1, IF Len(seq) < n THEN Len(seq) ELSE n)

\* A selection that chains the secondary labels before the primary ones.
select_locations_secondary_first(primary_locations, secondary_locations) ==
    take(secondary_locations \o primary_locations, 1)

\* primary_locations.chain(secondary_locations).take(1)
select_locations(primary_locations, secondary_locations) ==
    take(primary_locations \o secondary_locations, 1)

\* <Report as ToSarif>::to_sarif
report_to_sarif(r) ==
    LET primary_locations == collect(r.primary)
        secondary_locations == collect(r.secondary)
    IN IF primary_locations.tag = "Err" THEN primary_locations
       ELSE IF secondary_locations.tag = "Err" THEN secondary_locations
       ELSE [tag |-> "Ok", error |-> "none",
             locations |-> select_locations(primary_locations.locations,
                                            secondary_locations.locations)]

NoSarif == [tag |-> "none", error |-> "none", locations |-> <<>>]
NoReport == [primary |-> <<>>, secondary |-> <<>>]

to_sarif ==
    /\ sarif.tag = "none"
    /\ report \in Reports
    /\ sarif' = report_to_sarif(report)
    /\ UNCHANGED <<report, ppVars, parseVars, seVars>>



PreprocessIdle ==
    /\ expr = <<>> /\ file_id = 0 /\ it = 0 /\ pp = <<>> /\ state = 0
    /\ loc = 0 /\ block_start = 0 /\ result = NoResult
    /\ entry = "none" /\ parser_calls = 0 /\ parser_input = <<>> /\ ret = NoRet

SideEffectIdle ==
    /\ cfg = IdleCfg /\ se_pc = "idle" /\ variables_read = {} /\ sinks = {}
    /\ reports = <<>> /\ reported_vars = {}

SarifIdle == report = NoReport /\ sarif = NoSarif

Init ==
    /\ expr \in Strings
    /\ entry \in {"parse_file", "parse_string"}
    /\ file_id \in IF entry = "parse_string" THEN {0} ELSE FileIds
    /\ it = 0
    /\ pp = <<>>
    /\ state = 0
    /\ loc = 0
    /\ block_start = 0
    /\ result = NoResult
    /\ parser_calls = 0
    /\ parser_input = <<>>
    /\ ret = NoRet
    /\ SideEffectIdle
    /\ SarifIdle

Next ==
    \/ preprocess
    \/ parse_file
    \/ parse_string

Spec == Init /\ [][Next]_vars

InitSideEffect ==
    /\ PreprocessIdle
    /\ SarifIdle
    /\ cfg \in Cfgs
    /\ se_pc = "start"
    /\ variables_read = {}
    /\ sinks = {}
    /\ reports = <<>>
    /\ reported_vars = {}

NextSideEffect == run_side_effect_analysis

SpecSideEffect == InitSideEffect /\ [][NextSideEffect]_vars

InitSarif ==
    /\ PreprocessIdle
    /\ SideEffectIdle
    /\ report \in Reports
    /\ sarif = NoSarif

NextSarif == to_sarif

SpecSarif == InitSarif /\ [][NextSarif]_vars

-----------------------------------------------------------------------------
(* Properties of the preprocessor and of the parse entry points.           *)

Returned == result.tag # "none"
InBytes == Bytes(expr)
OutBytes == Bytes(result.pp)

\* C1: whenever preprocess returns Ok(out), out has the byte length of the
\* input and every output byte is the input byte at that offset or 0x20.
C1_OffsetsPreserved ==
    result.tag = "Ok" =>
        /\ Len(OutBytes) = Len(InBytes)
        /\ \A i \in 1..Len(InBytes) :
               OutBytes[i] = InBytes[i] \/ OutBytes[i] = Space

\* A two-byte char inside a comment was replaced and Ok was returned.
C1_Witness ==
    /\ result.tag = "Ok"
    /\ \E i \in 1..Len(expr) : expr[i] = 233
    /\ \A i \in 1..Len(result.pp) : result.pp[i] # 233

\* C2: whenever preprocess returns Ok(out), every line feed of the input is
\* a line feed at the same byte offset of out, inside comments too.
C2_LineFeedsPreserved ==
    result.tag = "Ok" =>
        \A i \in 1..Len(InBytes) :
            InBytes[i] = LineFeed =>
                i <= Len(OutBytes) /\ OutBytes[i] = LineFeed

\* C3: when the end of the input is reached in the block comment state,
\* preprocess returns the UnclosedComment error.
C3_OpenBlockCommentIsError ==
    (Returned /\ state = 2) => result.tag = "UnclosedComment"

\* C4: preprocess returns an error only when the input ends in the block
\* comment state; an input ending in the code state or in the line comment
\* state yields Ok, and the text of a line comment that runs to the end of
\* the input is returned as spaces.
C4_ErrorOnlyInBlockComment ==
    Returned =>
        /\ result.tag = "UnclosedComment" => state = 2
        /\ state \in {0, 1} => result.tag = "Ok"
        /\ state = 1 =>
               /\ Len(OutBytes) = Len(InBytes)
               /\ \E k \in 1..(Len(InBytes) - 1) :
                      /\ InBytes[k] = Slash /\ InBytes[k + 1] = Slash
                      /\ \A j \in k..Len(InBytes) : OutBytes[j] = Space

\* A line comment with some text and no trailing line feed was returned.
C4_Witness ==
    /\ result.tag = "Ok" /\ state = 1
    /\ Len(expr) >= 3
    /\ expr[Len(expr)] \notin {Slash, LineFeed}

\* C10: when preprocess fails the grammar parser is never invoked, parse_file
\* returns Err with the preprocessing report and no AST, parse_string returns
\* None; the parser is only ever given a successfully preprocessed string.
C10_PreprocessErrorStopsPipeline ==
    /\ result.tag = "UnclosedComment" =>
           /\ parser_calls = 0
           /\ (entry = "parse_file" /\ ret.tag # "none") =>
                  ret = [tag |-> "Err", report |-> "UnclosedComment",
                         file_id |-> file_id]
           /\ (entry = "parse_string" /\ ret.tag # "none") => ret.tag = "None"
    /\ parser_calls > 0 =>
           /\ parser_calls = 1
           /\ result.tag = "Ok"
           /\ parser_input = result.pp

\* parse_file has returned the report of a failed preprocess.
C10_Witness ==
    /\ entry = "parse_file"
    /\ result.tag = "UnclosedComment"
    /\ ret.tag = "Err"

-----------------------------------------------------------------------------
(* Properties of the side-effect analysis (under SpecSideEffect).          *)

Analysed == se_pc = "done"
ReportsOn(name) == {i \in 1..Len(reports) : reports[i].name = name}
DefinitionWarnings ==
    {"UnusedVariable", "UnusedParameter", "VariableWithoutSideEffects",
     "ParamWithoutSideEffects"}
SignalWarnings == {"UnusedSignal", "UnconstrainedSignal"}

\* C5: no report of any kind is emitted for a name of the computed sink set.
C5_NoReportOnSink ==
    \A i \in 1..Len(reports) : reports[i].name \notin sinks

\* C6: a signal reported by the definition pass gets no report from the
\* signal pass, and a signal that is assigned but never read (so never
\* constrained either) yields exactly one report.
C6_SignalReportedOnce ==
    /\ \A i, j \in 1..Len(reports) :
           (/\ reports[i].name = reports[j].name
            /\ reports[i].warning \in DefinitionWarnings)
               => reports[j].warning \notin SignalWarnings
    /\ Analysed =>
           \A n \in signal_decls :
               (n \in definitions /\ n \notin VariablesRead)
                   => Cardinality(ReportsOn(n)) = 1

\* The analysis is done and a signal that is assigned but never read was
\* reported by the definition pass.
C6_Witness ==
    /\ Analysed
    /\ \E n \in signal_decls :
           /\ n \in definitions /\ n \notin VariablesRead
           /\ n \in reported_vars
           /\ \E i \in ReportsOn(n) : reports[i].warning = "UnusedVariable"

\* A function-like construct: no signals, nothing assigned, every statement a
\* Return, and every parameter read (so by a Return only).
PureFunction ==
    /\ signal_decls = {}
    /\ parameters # {}
    /\ parameters \subseteq VariablesRead
    /\ definitions = parameters
    /\ \A st \in cfg.stmts : st.kind = "Return"

FlowsIntoExportedConstraint(v) ==
    \E w \in ReachFrom(TaintEdges, {v}) :
        \E st \in cfg.stmts :
            /\ st.kind = "ConstraintEquality"
            /\ w \in st.reads
            /\ st.reads \cap exported_signals # {}

-----------------------------------------------------------------------------
(* Properties of the SARIF conversion (under SpecSarif).                   *)

\* C9: a report converts to a result with at most one location: that of the
\* first primary label if there is one, else that of the first secondary
\* label, and none for a report without labels.
C9_FirstLabelOnly ==
    sarif.tag = "Ok" =>
        /\ Len(sarif.locations) <= 1
        /\ report.primary # <<>> =>
               sarif.locations = label_to_sarif(report.primary[1]).locations
        /\ (report.primary = <<>> /\ report.secondary # <<>>) =>
               sarif.locations = label_to_sarif(report.secondary[1]).locations
        /\ (report.primary = <<>> /\ report.secondary = <<>>) =>
               sarif.locations = <<>>

\* A report with two different primary labels and a secondary label was
\* converted.
C9_Witness ==
    /\ sarif.tag = "Ok"
    /\ Len(report.primary) = 2
    /\ report.primary[1] # report.primary[2]
    /\ report.secondary # <<>>
    /\ report.secondary[1] # report.primary[1]

-----------------------------------------------------------------------------
(* Further properties of the side-effect analysis (under SpecSideEffect).  *)

\* The multiset of the elements of a sequence.
BagOf(seq) ==
    [r \in {seq[i] : i \in 1..Len(seq)} |->
        Cardinality({i \in 1..Len(seq) : seq[i] = r})]

\* C11: the multiset of reports of a run is the same whatever order the
\* definitions and the signal declarations are iterated in: the reports of
\* this run are, as a multiset, those of every other order.
C11_ReportsIndependentOfOrder ==
    Analysed =>
        \A o1 \in Orders(definitions) :
            \A o2 \in Orders(signal_decls) :
                BagOf(reports) =
                    BagOf(DefinitionPassReports(o1)
                          \o SignalPassReports(o2, reported_vars))

\* A run in which the definition pass reported two names, in one of two
\* orders, and the signal pass reported a signal.
C11_Witness ==
    /\ Analysed
    /\ Cardinality(reported_vars) >= 2
    /\ \E i \in 1..Len(reports) : reports[i].warning \in SignalWarnings

SinksComputed == se_pc \in {"definitions", "signals", "done"}

\* The sink set after the closure and the addition of the exported signals,
\* as C12 states it.
C12_ClosureSinks ==
    exported_signals
    \cup {s \in exported_sinks : multi_step_constraint(s) # {}}
    \cup UNION {multi_step_constraint(s) :
                s \in {t \in exported_sinks : multi_step_constraint(t) # {}}}

\* C12: a variable tainted by an exported signal brings itself and its
\* constraint neighbourhood into the sinks only when that neighbourhood is
\* not empty; the sinks are the exported signals, these, and what the
\* Declaration, Return, Assert and IfThenElse statements read afterwards.
C12_SinkClosure ==
    SinksComputed =>
        /\ sinks = C12_ClosureSinks \cup StatementSinks
        /\ \A s \in exported_sinks :
               (/\ multi_step_constraint(s) = {}
                /\ s \notin exported_signals
                /\ s \notin StatementSinks) => s \notin sinks

\* The sinks were computed for a CFG with a tainted variable outside every
\* constraint, which stayed out, and one inside a constraint, which came in
\* with its neighbour.
C12_Witness ==
    /\ SinksComputed
    /\ \E s \in exported_sinks \ exported_signals :
           multi_step_constraint(s) = {} /\ s \notin sinks
    /\ \E s \in exported_sinks :
           \E c \in multi_step_constraint(s) \ exported_signals :
               c # s /\ c \in sinks /\ c \notin StatementSinks

DefinitionsDone == se_pc \in {"signals", "done"}
DefinitionReportsOn(d) ==
    {i \in ReportsOn(d) : reports[i].warning \in DefinitionWarnings}

\* C13: every definition yields at most one report of the definition pass:
\* unused parameter or unused variable when its name is not read, else
\* param or variable without side effect when it taints no sink, else none.
C13_DefinitionPassCases ==
    DefinitionsDone =>
        \A d \in definitions :
            LET on == DefinitionReportsOn(d)
                p == d \in parameters
            IN /\ Cardinality(on) <= 1
               /\ d \notin VariablesRead =>
                      \E i \in on :
                          /\ reports[i].warning =
                                 IF p THEN "UnusedParameter" ELSE "UnusedVariable"
                          /\ reports[i].code =
                                 IF p THEN "UnusedParameterValue"
                                 ELSE "UnusedVariableValue"
               /\ (d \in VariablesRead /\ ~taints_any(d, sinks)) =>
                      \E i \in on :
                          /\ reports[i].warning =
                                 IF p THEN "ParamWithoutSideEffects"
                                 ELSE "VariableWithoutSideEffects"
                          /\ reports[i].code = "VariableWithoutSideEffect"
               /\ (d \in VariablesRead /\ taints_any(d, sinks)) => on = {}

\* The definition pass met an unread parameter, a read variable that taints
\* no sink, and a read definition that taints a sink.
C13_Witness ==
    /\ DefinitionsDone
    /\ \E i \in 1..Len(reports) : reports[i].warning = "UnusedParameter"
    /\ \E i \in 1..Len(reports) :
           reports[i].warning = "VariableWithoutSideEffects"
    /\ \E d \in definitions :
           d \in VariablesRead /\ taints_any(d, sinks)

-----------------------------------------------------------------------------
(* Further properties of the preprocessor (under Spec).                    *)

\* The number of bytes before the char of index i.
ByteOffset(s, i) == Len(Bytes(SubSeq(s, 1, i - 1)))

\* The index of the slash of the most recent block comment opener read in
\* code state when s is scanned from char i in state st (0 if there is
\* none): comments are as the language defines them.
RECURSIVE OpenerAt(_, _, _, _)
OpenerAt(s, i, st, op) ==
    IF i > Len(s) THEN op
    ELSE LET two == i + 1 <= Len(s)
         IN IF st = 0
            THEN IF s[i] = Slash /\ two /\ s[i + 1] = Slash
                 THEN OpenerAt(s, i + 2, 1, op)
                 ELSE IF s[i] = Slash /\ two /\ s[i + 1] = Star
                 THEN OpenerAt(s, i + 2, 2, i)
                 ELSE OpenerAt(s, i + 1, 0, op)
            ELSE IF st = 1
            THEN OpenerAt(s, i + 1, IF s[i] = LineFeed THEN 0 ELSE 1, op)
            ELSE IF s[i] = Star /\ two /\ s[i + 1] = Slash
                 THEN OpenerAt(s, i + 2, 0, op)
                 ELSE OpenerAt(s, i + 1, 2, op)

\* C14: the location of the UnclosedComment error is the empty range
\* block_start..block_start, and block_start is a byte offset of the source
\* at the opener of the comment still open: between the offset of its slash
\* and the offset just after its star.
C14_ErrorLocationIsOpenerByteOffset ==
    result.tag = "UnclosedComment" =>
        LET opener == OpenerAt(expr, 1, 0, 0)
        IN /\ result.location[1] = result.location[2]
           /\ opener > 0
           /\ result.location[1] >= ByteOffset(expr, opener)
           /\ result.location[1] <= ByteOffset(expr, opener) + 2

\* The input has one block comment, opened at char p after code without a
\* slash and closed by the first star-slash after the opener, at char k, and
\* what follows the comment has no slash.
OneBlockComment(p, k) ==
    /\ \A j \in 1..(p - 1) : expr[j] # Slash
    /\ expr[p] = Slash /\ expr[p + 1] = Star
    /\ expr[k] = Star /\ expr[k + 1] = Slash
    /\ \A j \in (p + 2)..(k - 1) : ~(expr[j] = Star /\ expr[j + 1] = Slash)
    /\ \A j \in (k + 2)..Len(expr) : expr[j] # Slash

\* C15: a block comment ends at the first star-slash after its opener,
\* further stars before it or not: the preprocessor is then in code state and
\* returns what follows the comment unchanged.
C15_BlockCommentEndsAtFirstClose ==
    Returned =>
        \A p \in 1..(Len(expr) - 3) :
            \A k \in (p + 2)..(Len(expr) - 1) :
                OneBlockComment(p, k) =>
                    LET tail == Bytes(SubSeq(expr, k + 2, Len(expr)))
                        n == Len(OutBytes)
                    IN /\ result.tag = "Ok"
                       /\ state = 0
                       /\ n >= Len(tail)
                       /\ SubSeq(OutBytes, n - Len(tail) + 1, n) = tail

====
